---- MODULE Spec2Model ----
(***************************************************************************)
(* SessionPoolEnvironment (agentnet/environment/session_pool.py): the      *)
(* replay pool of recorded sessions.  The model keeps the five groups of   *)
(* shared variables of the pool and one action per public method.          *)
(*                                                                         *)
(* An array is a record [ndim, width, rows]: ndim is its rank, rows its    *)
(* entries along axis 0 (the pool axis), every row a sequence of `width'   *)
(* cells along axis 1 (time for observations, actions, rewards, is_alive;  *)
(* units for the preceding memories).  Further axes of an observation are  *)
(* folded into the cell.                                                   *)
(***************************************************************************)
EXTENDS Integers, Sequences, FiniteSets, TLC

\* the shared variables of the pool; `call' is the method call in progress
\* with its arguments and its result, `held' a batch the caller has kept
VARIABLES observations, actions, rewards, is_alive, preceding_agent_memories,
          call, held

vars == <<observations, actions, rewards, is_alive, preceding_agent_memories,
          call, held>>

-----------------------------------------------------------------------------
(* Program constants *)

NObs == 1
NAct == 1
NMem == 1
InitPoolSize == 10
InitSeqLen == 5
InitMemUnits == 5
ObsNdim == 3
FlatNdim == 2
Uint8Range == 256

(* Bounds of the model *)

MaxNew == 2          \* rows of one supplied array: 1..MaxNew
AltSeqLen == 2       \* the second time extent tried besides InitSeqLen
MaxPoolRows == 3     \* append is not tried on a pool that would outgrow this
MaxCrop == 2         \* the max_pool_size tried by append
MaxSel == 3          \* length of a selector: 1..MaxSel
MaxIdx == 1          \* selector entries: -1..MaxIdx
MaxSamples == 2      \* max_n_samples: 1..MaxSamples
MaxBatch == 1        \* sessions stepped at once by get_action_results: 1..MaxBatch
MaxAction == 1       \* the action handed to get_action_results: 0..MaxAction

-----------------------------------------------------------------------------
(* Arrays *)

Some(x) == [given |-> TRUE, val |-> x]
None == [given |-> FALSE]

Min(a, b) == IF a < b THEN a ELSE b

Full(n, w, d, c) == [ndim |-> d, width |-> w, rows |-> [i \in 1..n |-> [t \in 1..w |-> c]]]

\* cast of one cell to a dtype: uint8 wraps, the others keep small integers
Cast(dtype, c) == IF dtype = "uint8" THEN c % Uint8Range ELSE c

AsType(arr, dtype) ==
    [arr EXCEPT !.rows = [i \in 1..Len(arr.rows) |->
                            [t \in 1..Len(arr.rows[i]) |-> Cast(dtype, arr.rows[i][t])]]]

\* the shared variable's type accepts a value of its own rank only
SetSharedFails(var, value) == value.ndim # var.ndim

\* set_shared(var, value): the variable holds the value cast to its dtype
SetShared(var, value, dtype) == AsType(value, dtype)

\* np.concatenate raises unless the arrays agree in rank and in every extent
\* but the one of axis 0
ConcatFails(a, b) == a.ndim # b.ndim \/ a.width # b.width

\* the new rows put in front of the old ones
ConcatenateNewFirst(a, b) == [ndim |-> a.ndim, width |-> a.width, rows |-> b.rows \o a.rows]

\* np.concatenate((a, b), axis=0)
Concatenate(a, b) == [ndim |-> a.ndim, width |-> a.width, rows |-> a.rows \o b.rows]

-----------------------------------------------------------------------------
(* The pool as one record, for the methods that compute a new pool *)

Pool == [observations |-> observations, actions |-> actions, rewards |-> rewards,
         is_alive |-> is_alive, preceding_agent_memories |-> preceding_agent_memories]

\* a pool size read once, when the pool is constructed
pool_size_at_construction == InitPoolSize

\* self.pool_size = self.rewards.shape[0], self.sequence_length = self.rewards.shape[1]
pool_size == Len(rewards.rows)
sequence_length == rewards.width

-----------------------------------------------------------------------------
(* load_sessions *)

\* dtype of every stream, fixed at construction
DTypeOf(stream) ==
    IF stream = "is_alive" THEN "uint8"
    ELSE IF stream = "actions" THEN "int32"
    ELSE "floatX"

\* load_sessions without its set_shared(self.rewards, reward_seq)
LoadWritesSkipRewards(p, a) ==
    [i \in 1..Min(Len(p.observations), Len(a.obs)) |->
        [stream |-> "observations", ch |-> i, val |-> a.obs[i]]]
    \o [i \in 1..Min(Len(p.actions), Len(a.act)) |->
        [stream |-> "actions", ch |-> i, val |-> a.act[i]]]
    \o (IF a.alive.given
        THEN <<[stream |-> "is_alive", ch |-> 0, val |-> a.alive.val]>>
        ELSE <<>>)
    \o (IF a.mem.given
        THEN [i \in 1..Min(Len(p.preceding_agent_memories), Len(a.mem.val)) |->
                [stream |-> "preceding_agent_memories", ch |-> i, val |-> a.mem.val[i]]]
        ELSE <<>>)

\* load_sessions putting the construction default where is_alive is omitted
LoadWritesResetAlive(p, a) ==
    [i \in 1..Min(Len(p.observations), Len(a.obs)) |->
        [stream |-> "observations", ch |-> i, val |-> a.obs[i]]]
    \o [i \in 1..Min(Len(p.actions), Len(a.act)) |->
        [stream |-> "actions", ch |-> i, val |-> a.act[i]]]
    \o <<[stream |-> "rewards", ch |-> 0, val |-> a.rew]>>
    \o <<[stream |-> "is_alive", ch |-> 0,
          val |-> IF a.alive.given THEN a.alive.val
                  ELSE Full(InitPoolSize, InitSeqLen, FlatNdim, 1)]>>
    \o (IF a.mem.given
        THEN [i \in 1..Min(Len(p.preceding_agent_memories), Len(a.mem.val)) |->
                [stream |-> "preceding_agent_memories", ch |-> i, val |-> a.mem.val[i]]]
        ELSE <<>>)

\* the set_shared calls of load_sessions, in the order the method makes them;
\* zip stops at the shorter of the two lists
LoadWrites(p, a) ==
    [i \in 1..Min(Len(p.observations), Len(a.obs)) |->
        [stream |-> "observations", ch |-> i, val |-> a.obs[i]]]
    \o [i \in 1..Min(Len(p.actions), Len(a.act)) |->
        [stream |-> "actions", ch |-> i, val |-> a.act[i]]]
    \o <<[stream |-> "rewards", ch |-> 0, val |-> a.rew]>>
    \o (IF a.alive.given
        THEN <<[stream |-> "is_alive", ch |-> 0, val |-> a.alive.val]>>
        ELSE <<>>)
    \o (IF a.mem.given
        THEN [i \in 1..Min(Len(p.preceding_agent_memories), Len(a.mem.val)) |->
                [stream |-> "preceding_agent_memories", ch |-> i, val |-> a.mem.val[i]]]
        ELSE <<>>)

Target(p, w) == IF w.ch = 0 THEN p[w.stream] ELSE p[w.stream][w.ch]

ApplyWrite(p, w) ==
    LET v == SetShared(Target(p, w), w.val, DTypeOf(w.stream))
    IN  IF w.ch = 0 THEN [p EXCEPT ![w.stream] = v]
        ELSE [p EXCEPT ![w.stream][w.ch] = v]

\* the writes are made one after the other; the first one that raises ends
\* the method and the earlier ones stay
RECURSIVE RunWrites(_, _)
RunWrites(p, ws) ==
    IF ws = <<>> THEN [pool |-> p, outcome |-> "ok"]
    ELSE IF SetSharedFails(Target(p, Head(ws)), Head(ws).val)
         THEN [pool |-> p, outcome |-> "ShapeMismatch"]
         ELSE RunWrites(ApplyWrite(p, Head(ws)), Tail(ws))

\* the assertions without the one on the observation list
CountsAgreeButObservations(p, a) ==
    /\ Len(a.act) = Len(p.actions)
    /\ a.mem.given => Len(a.mem.val) = Len(p.preceding_agent_memories)

\* the three assertions on the lengths of the argument lists
CountsAgree(p, a) ==
    /\ Len(a.obs) = Len(p.observations)
    /\ Len(a.act) = Len(p.actions)
    /\ a.mem.given => Len(a.mem.val) = Len(p.preceding_agent_memories)

load_sessions(p, a) ==
    IF ~CountsAgree(p, a) THEN [pool |-> p, outcome |-> "AssertionError"]
    ELSE RunWrites(p, LoadWrites(p, a))

-----------------------------------------------------------------------------
(* append_sessions *)

NoCrop == -1     \* max_pool_size=None

ConcatAll(olds, news) ==
    [i \in 1..Min(Len(olds), Len(news)) |-> Concatenate(olds[i], news[i])]

AnyConcatFails(olds, news) ==
    \E i \in 1..Min(Len(olds), Len(news)) : ConcatFails(olds[i], news[i])

\* one of the np.concatenate calls raises
AppendConcatFails(p, a) ==
    \/ AnyConcatFails(p.observations, a.obs)
    \/ AnyConcatFails(p.actions, a.act)
    \/ ConcatFails(p.rewards, a.rew)
    \/ a.alive.given /\ ConcatFails(p.is_alive, a.alive.val)
    \/ a.mem.given /\ AnyConcatFails(p.preceding_agent_memories, a.mem.val)

\* the crop branch is entered: its first statement reads observation_tensor,
\* a local that is never bound (the list is observation_tensors)
CropEntered(p, a) ==
    /\ a.K # NoCrop
    /\ Len(ConcatAll(p.observations, a.obs)[1].rows) > a.K

\* the final call reads is_alive_tensor and preceding_memory_states, bound
\* only when the arguments were given
FinalCallUnbound(a) == ~a.alive.given \/ ~a.mem.given

append_sessions(p, a) ==
    IF ~CountsAgree(p, a) THEN [pool |-> p, outcome |-> "AssertionError"]
    ELSE IF AppendConcatFails(p, a) THEN [pool |-> p, outcome |-> "ValueError"]
    ELSE IF CropEntered(p, a) THEN [pool |-> p, outcome |-> "UnboundLocalError"]
    ELSE IF FinalCallUnbound(a) THEN [pool |-> p, outcome |-> "UnboundLocalError"]
    ELSE load_sessions(p, [obs |-> ConcatAll(p.observations, a.obs),
                           act |-> ConcatAll(p.actions, a.act),
                           rew |-> Concatenate(p.rewards, a.rew),
                           alive |-> Some(Concatenate(p.is_alive, a.alive.val)),
                           mem |-> Some(ConcatAll(p.preceding_agent_memories, a.mem.val)),
                           K |-> NoCrop])

-----------------------------------------------------------------------------
(* select_session_batch, sample_session_batch *)

\* an index that must be a row number
IndexOkFromZero(arr, i) == 0 <= i /\ i < Len(arr.rows)

\* an index of advanced indexing: negative ones count from the end
IndexOk(arr, i) == -Len(arr.rows) <= i /\ i < Len(arr.rows)

Position(arr, i) == IF i >= 0 THEN i + 1 ELSE Len(arr.rows) + i + 1

\* the rows gathered in the reverse order of the selector
TakeReversed(arr, selector) ==
    [arr EXCEPT !.rows = [k \in 1..Len(selector) |->
                            arr.rows[Position(arr, selector[Len(selector) + 1 - k])]]]

\* arr[selector]
Take(arr, selector) ==
    [arr EXCEPT !.rows = [k \in 1..Len(selector) |-> arr.rows[Position(arr, selector[k])]]]

TakeFails(arr, selector) == \E k \in 1..Len(selector) : ~IndexOk(arr, selector[k])

NoBatch == [observations |-> <<>>, actions |-> <<>>, rewards |-> None,
            is_alive |-> None, preceding_agent_memories |-> <<>>]

SelectFails(p, selector) ==
    \/ \E i \in 1..Len(p.observations) : TakeFails(p.observations[i], selector)
    \/ \E i \in 1..Len(p.actions) : TakeFails(p.actions[i], selector)
    \/ \E i \in 1..Len(p.preceding_agent_memories) :
            TakeFails(p.preceding_agent_memories[i], selector)
    \/ TakeFails(p.rewards, selector)
    \/ TakeFails(p.is_alive, selector)

select_session_batch(p, selector) ==
    IF SelectFails(p, selector) THEN [batch |-> NoBatch, outcome |-> "IndexError"]
    ELSE [batch |-> [observations |-> [i \in 1..Len(p.observations) |->
                                          Take(p.observations[i], selector)],
                     actions |-> [i \in 1..Len(p.actions) |-> Take(p.actions[i], selector)],
                     rewards |-> Some(Take(p.rewards, selector)),
                     is_alive |-> Some(Take(p.is_alive, selector)),
                     preceding_agent_memories |->
                         [i \in 1..Len(p.preceding_agent_memories) |->
                             Take(p.preceding_agent_memories[i], selector)]],
          outcome |-> "ok"]

\* n_samples bounded by the pool size whether or not rows may repeat
NSamplesBounded(p, max_n_samples, replace) ==
    Min(max_n_samples, Len(p.rewards.rows))

\* n_samples
NSamples(p, max_n_samples, replace) ==
    IF replace THEN max_n_samples ELSE Min(max_n_samples, Len(p.rewards.rows))

Injective(s) == \A j, k \in 1..Len(s) : j # k => s[j] # s[k]

\* the draw with replace not handed on to rng.choice
ChoiceRepeating(n, N, replace) == [1..n -> 0..(N - 1)]

\* what self.rng.choice(size=(n,), a=N, replace=replace) can draw
Choice(n, N, replace) ==
    {s \in [1..n -> 0..(N - 1)] : replace \/ Injective(s)}

-----------------------------------------------------------------------------
(* padded_observations, get_action_results *)

\* an observation array with its last tick repeated in place of the zeros
PaddedRepeating(obs) ==
    [obs EXCEPT !.width = obs.width + 1,
                !.rows = [r \in 1..Len(obs.rows) |->
                             Append(obs.rows[r], obs.rows[r][obs.width])]]

\* T.concatenate([obs, T.zeros_like(insert_dim(obs[:, 0], 1))], axis=1):
\* one tick of zeros after the last tick of every row
Padded(obs) ==
    [obs EXCEPT !.width = obs.width + 1,
                !.rows = [r \in 1..Len(obs.rows) |-> Append(obs.rows[r], 0)]]

\* self.padded_observations is an expression of the shared variables: it
\* has the value of the observations as they are when it is computed
PaddedObservations(p) == [i \in 1..Len(p.observations) |-> Padded(p.observations[i])]

TickOk(arr, j) == -arr.width <= j /\ j < arr.width

TickPosition(arr, j) == IF j >= 0 THEN j + 1 ELSE arr.width + j + 1

\* obs[batch_range, time_i + 1] raises
StepFails(arr, time_i) ==
    \/ Len(time_i) > Len(arr.rows)
    \/ \E k \in 1..Len(time_i) : ~TickOk(arr, time_i[k] + 1)

\* the step with the action added to the new state
get_action_results_acting(p, time_i, acts) ==
    LET padded == PaddedObservations(p)
        failed == \E i \in 1..Len(padded) : StepFails(padded[i], time_i)
    IN  [outcome |-> IF failed THEN "IndexError" ELSE "ok",
         new_state |-> [k \in 1..Len(time_i) |-> time_i[k] + 1 + acts],
         new_observations |->
             IF failed THEN <<>>
             ELSE [i \in 1..Len(padded) |->
                     [k \in 1..Len(time_i) |->
                         padded[i].rows[k][TickPosition(padded[i], time_i[k] + 1)]]]]

\* get_action_results(last_states, actions): time_i is last_states[0], one
\* tick per session of the batch; acts is never read
get_action_results(p, time_i, acts) ==
    LET padded == PaddedObservations(p)
        failed == \E i \in 1..Len(padded) : StepFails(padded[i], time_i)
    IN  [outcome |-> IF failed THEN "IndexError" ELSE "ok",
         new_state |-> [k \in 1..Len(time_i) |-> time_i[k] + 1],
         new_observations |->
             IF failed THEN <<>>
             ELSE [i \in 1..Len(padded) |->
                     [k \in 1..Len(time_i) |->
                         padded[i].rows[k][TickPosition(padded[i], time_i[k] + 1)]]]]

-----------------------------------------------------------------------------
(* get_session_updates *)

\* the entries with one for the liveness whether or not it is given
SessionUpdatesAllStreams(p, a) ==
    [i \in 1..Min(Len(p.observations), Len(a.obs)) |->
        [stream |-> "observations", ch |-> i, val |-> a.obs[i]]]
    \o [i \in 1..Min(Len(p.actions), Len(a.act)) |->
        [stream |-> "actions", ch |-> i, val |-> a.act[i]]]
    \o <<[stream |-> "rewards", ch |-> 0, val |-> a.rew]>>
    \o <<[stream |-> "is_alive", ch |-> 0,
          val |-> IF a.alive.given THEN a.alive.val ELSE p.is_alive]>>
    \o (IF a.mem.given
        THEN [i \in 1..Min(Len(p.preceding_agent_memories), Len(a.mem.val)) |->
                [stream |-> "preceding_agent_memories", ch |-> i, val |-> a.mem.val[i]]]
        ELSE <<>>)

\* the OrderedDict as the list of its entries, in the order they are put
\* in: the shared variable (stream, ch) and the value it is to take
SessionUpdates(p, a) ==
    [i \in 1..Min(Len(p.observations), Len(a.obs)) |->
        [stream |-> "observations", ch |-> i, val |-> a.obs[i]]]
    \o [i \in 1..Min(Len(p.actions), Len(a.act)) |->
        [stream |-> "actions", ch |-> i, val |-> a.act[i]]]
    \o <<[stream |-> "rewards", ch |-> 0, val |-> a.rew]>>
    \o (IF a.alive.given
        THEN <<[stream |-> "is_alive", ch |-> 0, val |-> a.alive.val]>>
        ELSE <<>>)
    \o (IF a.mem.given
        THEN [i \in 1..Min(Len(p.preceding_agent_memories), Len(a.mem.val)) |->
                [stream |-> "preceding_agent_memories", ch |-> i, val |-> a.mem.val[i]]]
        ELSE <<>>)

\* casted_updates[var] = upd.astype(var.dtype)
CastedUpdates(updates) ==
    [k \in 1..Len(updates) |->
        [updates[k] EXCEPT !.val = AsType(updates[k].val, DTypeOf(updates[k].stream))]]

get_session_updates(p, a, cast_dtypes) ==
    IF ~CountsAgree(p, a) THEN [updates |-> <<>>, outcome |-> "AssertionError"]
    ELSE [updates |-> IF cast_dtypes THEN CastedUpdates(SessionUpdates(p, a))
                      ELSE SessionUpdates(p, a),
          outcome |-> "ok"]

-----------------------------------------------------------------------------
(* Arguments tried *)

Cell(i, t) == 1 + ((i + t) % 3)

Data(n, w, d) ==
    [ndim |-> d, width |-> w, rows |-> [i \in 1..n |-> [t \in 1..w |-> Cell(i, t)]]]

\* liveness flags handed over as wide integers
AliveData(n, w) ==
    [ndim |-> FlatNdim, width |-> w,
     rows |-> [i \in 1..n |-> [t \in 1..w |-> Uint8Range + ((i + t) % 2)]]]

\* an array of one axis only
Flat(n) == [ndim |-> 1, width |-> 0, rows |-> [i \in 1..n |-> <<>>]]

SeqLens == {AltSeqLen, InitSeqLen}
OtherLen(w) == IF w = InitSeqLen THEN AltSeqLen ELSE InitSeqLen

\* the ways a call departs from one that gives every stream n rows of w ticks
Forms == {"no_alive", "no_mem", "no_both", "obs_count", "act_count",
          "mem_count", "rew_rows", "rew_width", "rew_rank", "alive_rank", "mem_rank"}

Args(f, n, w, k) ==
    [obs |-> IF f = "obs_count"
             THEN <<Data(n, w, ObsNdim), Data(n, w, ObsNdim)>>
             ELSE <<Data(n, w, ObsNdim)>>,
     act |-> IF f = "act_count"
             THEN <<Data(n, w, FlatNdim), Data(n, w, FlatNdim)>>
             ELSE <<Data(n, w, FlatNdim)>>,
     rew |-> IF f = "rew_rows" THEN Data(n + 1, w, FlatNdim)
             ELSE IF f = "rew_width" THEN Data(n, OtherLen(w), FlatNdim)
             ELSE IF f = "rew_rank" THEN Flat(n)
             ELSE Data(n, w, FlatNdim),
     alive |-> IF f \in {"no_alive", "no_both"} THEN None
               ELSE IF f = "alive_rank" THEN Some(Flat(n))
               ELSE Some(AliveData(n, w)),
     mem |-> IF f \in {"no_mem", "no_both"} THEN None
             ELSE IF f = "mem_count"
                  THEN Some(<<Data(n, w, FlatNdim), Data(n, w, FlatNdim)>>)
             ELSE IF f = "mem_rank" THEN Some(<<Flat(n)>>)
             ELSE Some(<<Data(n, w, FlatNdim)>>),
     K |-> k]

LoadArgs ==
    {Args("full", n, w, NoCrop) : n \in 1..MaxNew, w \in SeqLens}
    \cup {Args(f, 1, InitSeqLen, NoCrop) : f \in Forms}

AppendArgs ==
    {Args("full", n, w, k) : n \in 1..MaxNew, w \in SeqLens, k \in {NoCrop, MaxCrop}}
    \cup {Args(f, 1, InitSeqLen, NoCrop) : f \in Forms}
    \cup {Args(f, 1, InitSeqLen, MaxCrop) : f \in {"no_alive", "no_mem", "no_both"}}

\* an index below the first row of every pool the appends can build
BelowSelectors == {<<0 - (MaxPoolRows + 1)>>}

Selectors == UNION {[1..n -> -1..MaxIdx] : n \in 1..MaxSel} \cup BelowSelectors

TimeIndices == UNION {[1..b -> 0..InitSeqLen] : b \in 1..MaxBatch}

ActionValues == 0..MaxAction

NoArgs == [obs |-> <<>>, act |-> <<>>, rew |-> None, alive |-> None, mem |-> None,
           K |-> NoCrop]

-----------------------------------------------------------------------------
(* The pool after __init__ and the calls *)

\* no method is being called
NoCall == [op |-> "idle", args |-> NoArgs, outcome |-> "ok", selector |-> <<>>,
           max_n_samples |-> 0, replace |-> FALSE, batch |-> NoBatch]

\* the caller has kept no batch
NoHeld == [kind |-> "none", selector |-> <<>>, max_n_samples |-> 0, replace |-> FALSE,
           taken |-> NoBatch]

Init ==
    /\ observations = [i \in 1..NObs |-> Full(InitPoolSize, InitSeqLen, ObsNdim, 0)]
    /\ actions = [i \in 1..NAct |-> Full(InitPoolSize, InitSeqLen, FlatNdim, 0)]
    /\ preceding_agent_memories =
          [i \in 1..NMem |-> Full(InitPoolSize, InitMemUnits, FlatNdim, 0)]
    /\ rewards = Full(InitPoolSize, InitSeqLen, FlatNdim, 0)
    /\ is_alive = Full(InitPoolSize, InitSeqLen, FlatNdim, 1)
    /\ call = NoCall
    /\ held = NoHeld

Commit(p) ==
    /\ observations' = p.observations
    /\ actions' = p.actions
    /\ rewards' = p.rewards
    /\ is_alive' = p.is_alive
    /\ preceding_agent_memories' = p.preceding_agent_memories

PoolVars == <<observations, actions, rewards, is_alive, preceding_agent_memories>>

Max(a, b) == IF a > b THEN a ELSE b

LongestStream ==
    Max(Max(Len(observations[1].rows), Len(actions[1].rows)),
        Max(Max(Len(rewards.rows), Len(is_alive.rows)),
            Len(preceding_agent_memories[1].rows)))

LoadWith(A) ==
    \E a \in A :
        /\ call.op = "idle"
        /\ LET r == load_sessions(Pool, a)
           IN  /\ Commit(r.pool)
               /\ call' = [op |-> "load", args |-> a, outcome |-> r.outcome,
                           selector |-> <<>>, max_n_samples |-> 0, replace |-> FALSE,
                           batch |-> NoBatch]
               /\ UNCHANGED held

AppendWith(A) ==
    \E a \in A :
        /\ call.op = "idle"
        /\ LongestStream + Len(a.rew.rows) <= MaxPoolRows
        /\ LET r == append_sessions(Pool, a)
           IN  /\ Commit(r.pool)
               /\ call' = [op |-> "append", args |-> a, outcome |-> r.outcome,
                           selector |-> <<>>, max_n_samples |-> 0, replace |-> FALSE,
                           batch |-> NoBatch]
               /\ UNCHANGED held

SelectWith(S) ==
    \E s \in S :
        /\ call.op = "idle"
        /\ LET r == select_session_batch(Pool, s)
           IN  call' = [op |-> "select", args |-> NoArgs, outcome |-> r.outcome,
                        selector |-> s, max_n_samples |-> 0, replace |-> FALSE,
                        batch |-> r.batch]
        /\ UNCHANGED <<PoolVars, held>>

SampleWith(Ms, Rs) ==
    \E m \in Ms, replace \in Rs :
        \E s \in Choice(NSamples(Pool, m, replace), pool_size, replace) :
            /\ call.op = "idle"
            /\ LET r == select_session_batch(Pool, s)
               IN  call' = [op |-> "sample", args |-> NoArgs, outcome |-> r.outcome,
                            selector |-> s, max_n_samples |-> m, replace |-> replace,
                            batch |-> r.batch]
            /\ UNCHANGED <<PoolVars, held>>

LoadSessions == LoadWith(LoadArgs)

AppendSessions == AppendWith(AppendArgs)

SelectSessionBatch == SelectWith(Selectors)

SampleSessionBatch == SampleWith(1..MaxSamples, BOOLEAN)

GetActionResults ==
    \E time_i \in TimeIndices, acts \in ActionValues :
        /\ call.op = "idle"
        /\ LET r == get_action_results(Pool, time_i, acts)
           IN  call' = [op |-> "step", args |-> NoArgs, outcome |-> r.outcome,
                        selector |-> <<>>, max_n_samples |-> 0, replace |-> FALSE,
                        batch |-> NoBatch, time_i |-> time_i, acts |-> acts,
                        new_state |-> r.new_state,
                        new_observations |-> r.new_observations]
        /\ UNCHANGED <<PoolVars, held>>

GetSessionUpdates ==
    \E a \in LoadArgs, cast_dtypes \in BOOLEAN :
        /\ call.op = "idle"
        /\ LET r == get_session_updates(Pool, a, cast_dtypes)
           IN  call' = [op |-> "updates", args |-> a, outcome |-> r.outcome,
                        selector |-> <<>>, max_n_samples |-> 0, replace |-> FALSE,
                        batch |-> NoBatch, cast_dtypes |-> cast_dtypes,
                        updates |-> r.updates]
        /\ UNCHANGED <<PoolVars, held>>

\* the method has returned or raised and the caller goes on
Return ==
    /\ call.op # "idle"
    /\ call' = NoCall
    /\ UNCHANGED <<PoolVars, held>>

\* the caller keeps the batch the last call returned; `taken' remembers
\* the rows it was read to hold when it was returned
KeepBatch ==
    /\ call.op \in {"select", "sample"}
    /\ call.outcome = "ok"
    /\ held' = [kind |-> call.op,
                selector |-> IF call.op = "select" THEN call.selector ELSE <<>>,
                max_n_samples |-> call.max_n_samples, replace |-> call.replace,
                taken |-> call.batch]
    /\ call' = NoCall
    /\ UNCHANGED PoolVars

\* a kept batch that holds copies of the rows it was returned with
EvaluateBatchTaken(p, h, ids) == [batch |-> h.taken, outcome |-> "ok"]

\* the value of a kept batch: its streams are the expressions
\* shared_variable[selector] built by select_session_batch, computed from
\* the shared variables as they are when the batch is read
EvaluateBatch(p, h, ids) == select_session_batch(p, ids)

\* the caller reads the kept batch; a sampled batch draws its ids at
\* every reading
ReadBatch ==
    /\ call.op = "idle"
    /\ held.kind # "none"
    /\ \E ids \in (IF held.kind = "select" THEN {held.selector}
                   ELSE Choice(NSamples(Pool, held.max_n_samples, held.replace),
                               Len(rewards.rows), held.replace)) :
          LET r == EvaluateBatch(Pool, held, ids)
          IN  call' = [op |-> "read", args |-> NoArgs, outcome |-> r.outcome,
                       selector |-> ids, max_n_samples |-> held.max_n_samples,
                       replace |-> held.replace, batch |-> r.batch]
    /\ UNCHANGED <<PoolVars, held>>

Next ==
    \/ LoadSessions
    \/ AppendSessions
    \/ SelectSessionBatch
    \/ SampleSessionBatch
    \/ GetActionResults
    \/ GetSessionUpdates
    \/ Return

Spec == Init /\ [][Next]_vars

\* the calls of a caller that keeps batches across later loads and appends
KeptLoadArgs == {Args("full", n, w, NoCrop) : n \in 1..MaxNew, w \in SeqLens}

KeptSelectors == {s \in Selectors : Len(s) = 1}

NextKept ==
    \/ LoadWith(KeptLoadArgs)
    \/ AppendWith(KeptLoadArgs)
    \/ SelectWith(KeptSelectors)
    \/ SampleWith({1}, {FALSE})
    \/ KeepBatch
    \/ ReadBatch
    \/ Return

SpecKept == Init /\ [][NextKept]_vars

-----------------------------------------------------------------------------
(* load_sessions run by one thread while another one selects: the method
   takes no lock, so the other thread runs between any two set_shared
   calls *)

\* the assertions have passed and no stream is written yet; before is the
\* pool as the call found it
BeginLoad ==
    \E a \in KeptLoadArgs :
        /\ call.op = "idle"
        /\ held = NoHeld
        /\ CountsAgree(Pool, a)
        /\ call' = [op |-> "loading", args |-> a, outcome |-> "ok",
                    selector |-> <<>>, max_n_samples |-> 0, replace |-> FALSE,
                    batch |-> NoBatch, written |-> 0, before |-> Pool]
        /\ UNCHANGED <<PoolVars, held>>

\* the next set_shared of the running load_sessions
WriteNext ==
    /\ call.op = "loading"
    /\ LET ws == LoadWrites(Pool, call.args)
           w == ws[call.written + 1]
       IN  IF SetSharedFails(Target(Pool, w), w.val)
           THEN /\ call' = [call EXCEPT !.op = "load", !.outcome = "ShapeMismatch"]
                /\ UNCHANGED PoolVars
           ELSE /\ Commit(ApplyWrite(Pool, w))
                /\ call' = IF call.written + 1 = Len(ws)
                           THEN [call EXCEPT !.op = "load", !.written = Len(ws)]
                           ELSE [call EXCEPT !.written = call.written + 1]
    /\ UNCHANGED held

\* the other thread calls select_session_batch and reads the batch while
\* load_sessions is running or has just ended
RacingSelect ==
    \E s \in KeptSelectors :
        /\ call.op \in {"loading", "load"}
        /\ held = NoHeld
        /\ LET r == select_session_batch(Pool, s)
           IN  held' = [kind |-> "select", selector |-> s, max_n_samples |-> 0,
                        replace |-> FALSE, taken |-> r.batch, outcome |-> r.outcome]
        /\ UNCHANGED <<PoolVars, call>>

\* load_sessions returns; the other thread has let go of its batch
ReturnFromLoad ==
    /\ call.op = "load"
    /\ call' = NoCall
    /\ held' = NoHeld
    /\ UNCHANGED PoolVars

NextRace ==
    \/ BeginLoad
    \/ WriteNext
    \/ RacingSelect
    \/ ReturnFromLoad

SpecRace == Init /\ [][NextRace]_vars

-----------------------------------------------------------------------------
(* Vocabulary of the properties *)

IsMutation(c) == c.op \in {"load", "append"}

AllSupplied(a) == a.alive.given /\ a.mem.given

SameShape(x, y) == x.ndim = y.ndim /\ x.width = y.width

\* the supplied arrays have the channel counts of the pool and, stream by
\* stream, the rank and the trailing extent of the array they are to join
ArgsFit(a) ==
    /\ Len(a.obs) = Len(observations)
    /\ \A i \in 1..Len(a.obs) : SameShape(observations[i], a.obs[i])
    /\ Len(a.act) = Len(actions)
    /\ \A i \in 1..Len(a.act) : SameShape(actions[i], a.act[i])
    /\ SameShape(rewards, a.rew)
    /\ a.alive.given => SameShape(is_alive, a.alive.val)
    /\ a.mem.given =>
          /\ Len(a.mem.val) = Len(preceding_agent_memories)
          /\ \A i \in 1..Len(a.mem.val) :
                SameShape(preceding_agent_memories[i], a.mem.val[i])

CountsMatch(a) ==
    /\ Len(a.obs) = NObs
    /\ Len(a.act) = NAct
    /\ a.mem.given => Len(a.mem.val) = NMem

LastRows(s, k) == SubSeq(s, Len(s) - k + 1, Len(s))

\* old rows followed by the new rows as the stream's dtype stores them
Joined(old, new, dtype) == old.rows \o AsType(new, dtype).rows

\* old pool length plus number of new rows exceeds max_pool_size
Exceeds(a) == a.K # NoCrop /\ pool_size + Len(a.rew.rows) > a.K

\* no max_pool_size, or one that no stream outgrows
NotExceeded(a) ==
    \/ a.K = NoCrop
    \/ /\ \A i \in 1..NObs : Len(observations[i].rows) + Len(a.obs[i].rows) <= a.K
       /\ \A i \in 1..NAct : Len(actions[i].rows) + Len(a.act[i].rows) <= a.K
       /\ Len(rewards.rows) + Len(a.rew.rows) <= a.K
       /\ Len(is_alive.rows) + Len(a.alive.val.rows) <= a.K
       /\ \A i \in 1..NMem :
             Len(preceding_agent_memories[i].rows) + Len(a.mem.val[i].rows) <= a.K

-----------------------------------------------------------------------------
(* C1: an append that supplies all streams with max_pool_size = K and whose
   result would have more than K rows completes, and every stream then holds
   exactly the last K rows of (old rows followed by new rows), in order. *)
C1_CropKeepsLastRows ==
    [][(/\ call'.op = "append"
        /\ AllSupplied(call'.args)
        /\ ArgsFit(call'.args)
        /\ Exceeds(call'.args))
       => LET a == call'.args
              Kept(old, new, dtype) == LastRows(Joined(old, new, dtype), a.K)
          IN  /\ call'.outcome = "ok"
              /\ \A i \in 1..NObs :
                    observations'[i].rows = Kept(observations[i], a.obs[i], "floatX")
              /\ \A i \in 1..NAct :
                    actions'[i].rows = Kept(actions[i], a.act[i], "int32")
              /\ rewards'.rows = Kept(rewards, a.rew, "floatX")
              /\ is_alive'.rows = Kept(is_alive, a.alive.val, "uint8")
              /\ \A i \in 1..NMem :
                    preceding_agent_memories'[i].rows =
                        Kept(preceding_agent_memories[i], a.mem.val[i], "floatX")
              /\ Len(rewards'.rows) <= a.K]_vars

(* C2: a load or append call that fails leaves every stream of the pool as
   it was before the call. *)
C2_FailureLeavesPool ==
    [][(IsMutation(call') /\ call'.outcome # "ok") => UNCHANGED PoolVars]_vars

(* C3: a load or append call whose number of observation arrays, action
   arrays or (when supplied) memory arrays differs from the channel counts
   raises the channel-count error and changes no stream. *)
C3_ChannelCountRejected ==
    [][(IsMutation(call') /\ ~CountsMatch(call'.args))
       => (call'.outcome = "AssertionError" /\ UNCHANGED PoolVars)]_vars

C3_Witness ==
    /\ call.op = "append"
    /\ call.outcome = "AssertionError"
    /\ call.args.mem.given
    /\ Len(call.args.mem.val) # NMem
    /\ rewards # Full(InitPoolSize, InitSeqLen, FlatNdim, 0)

(* C4: in every reachable state all observation, action, reward and liveness
   streams have the same pool extent and the same time extent, and every
   preceding-memory stream has that same pool extent. *)
C4_StreamsShareExtents ==
    /\ \A i \in 1..NObs :
          /\ Len(observations[i].rows) = Len(rewards.rows)
          /\ observations[i].width = rewards.width
    /\ \A i \in 1..NAct :
          /\ Len(actions[i].rows) = Len(rewards.rows)
          /\ actions[i].width = rewards.width
    /\ Len(is_alive.rows) = Len(rewards.rows)
    /\ is_alive.width = rewards.width
    /\ \A i \in 1..NMem : Len(preceding_agent_memories[i].rows) = Len(rewards.rows)

(* C5: an append that supplies all streams, with no max_pool_size or one
   that is not exceeded, leaves each stream equal to its previous rows
   followed by the new rows, and pool_size grows by the number of new rows. *)
C5_AppendConcatenates ==
    [][(/\ call'.op = "append"
        /\ AllSupplied(call'.args)
        /\ ArgsFit(call'.args)
        /\ NotExceeded(call'.args))
       => LET a == call'.args
          IN  /\ call'.outcome = "ok"
              /\ \A i \in 1..NObs :
                    observations'[i].rows = Joined(observations[i], a.obs[i], "floatX")
              /\ \A i \in 1..NAct :
                    actions'[i].rows = Joined(actions[i], a.act[i], "int32")
              /\ rewards'.rows = Joined(rewards, a.rew, "floatX")
              /\ is_alive'.rows = Joined(is_alive, a.alive.val, "uint8")
              /\ \A i \in 1..NMem :
                    preceding_agent_memories'[i].rows =
                        Joined(preceding_agent_memories[i], a.mem.val[i], "floatX")
              /\ Len(rewards'.rows) = Len(rewards.rows) + Len(a.rew.rows)]_vars

C5_Witness ==
    /\ call.op = "append"
    /\ call.outcome = "ok"
    /\ call.args.K = NoCrop
    /\ Len(call.args.rew.rows) = 1
    /\ Len(rewards.rows) = 3
    /\ rewards.rows[1] # rewards.rows[2]

(* C6: after a successful load(X) every replaced stream is exactly the
   array of X (cast to the stream's dtype), and loading X again leaves the
   pool the same. *)
C6_LoadRoundTrip ==
    (call.op = "load" /\ call.outcome = "ok")
    => LET a == call.args
       IN  /\ \A i \in 1..NObs : observations[i] = AsType(a.obs[i], "floatX")
           /\ \A i \in 1..NAct : actions[i] = AsType(a.act[i], "int32")
           /\ rewards = AsType(a.rew, "floatX")
           /\ a.alive.given => is_alive = AsType(a.alive.val, "uint8")
           /\ a.mem.given =>
                 \A i \in 1..NMem :
                     preceding_agent_memories[i] = AsType(a.mem.val[i], "floatX")
           /\ load_sessions(Pool, a) = [pool |-> Pool, outcome |-> "ok"]

C6_Witness ==
    /\ call.op = "load"
    /\ call.outcome = "ok"
    /\ AllSupplied(call.args)
    /\ Len(rewards.rows) = 2
    /\ rewards.width = AltSeqLen
    /\ is_alive.rows[1][1] < Uint8Range

(* C7: a load that omits liveness leaves the liveness stream as it was, one
   that omits preceding_memories leaves every preceding-memory stream as it
   was, while observations, actions and rewards are replaced. *)
C7_OmittedStreamsKept ==
    [][(call'.op = "load" /\ call'.outcome = "ok")
       => LET a == call'.args
          IN  /\ ~a.alive.given => is_alive' = is_alive
              /\ ~a.mem.given => preceding_agent_memories' = preceding_agent_memories
              /\ \A i \in 1..NObs : observations'[i] = AsType(a.obs[i], "floatX")
              /\ \A i \in 1..NAct : actions'[i] = AsType(a.act[i], "int32")
              /\ rewards' = AsType(a.rew, "floatX")]_vars

C7_Witness ==
    /\ call.op = "load"
    /\ call.outcome = "ok"
    /\ ~call.args.alive.given
    /\ ~call.args.mem.given
    /\ is_alive # Full(InitPoolSize, InitSeqLen, FlatNdim, 1)
    /\ preceding_agent_memories[1] # Full(InitPoolSize, InitMemUnits, FlatNdim, 0)
    /\ Len(is_alive.rows) # Len(rewards.rows)

\* row of a stream at a selector entry (entries below 0 count from the end)
RowAt(arr, i) == IF i >= 0 THEN arr.rows[i + 1] ELSE arr.rows[Len(arr.rows) + i + 1]

RowsAt(arr, s) == [k \in 1..Len(s) |-> RowAt(arr, s[k])]

\* the batch b holds, stream by stream and in the order of s, the pool rows at s
BatchHolds(b, s) ==
    /\ \A i \in 1..NObs : b.observations[i].rows = RowsAt(observations[i], s)
    /\ \A i \in 1..NAct : b.actions[i].rows = RowsAt(actions[i], s)
    /\ b.rewards.val.rows = RowsAt(rewards, s)
    /\ b.is_alive.val.rows = RowsAt(is_alive, s)
    /\ \A i \in 1..NMem :
          b.preceding_agent_memories[i].rows = RowsAt(preceding_agent_memories[i], s)

InPool(s) == \A k \in 1..Len(s) : 0 <= s[k] /\ s[k] < pool_size

\* every stream has pool_size rows
OnePoolSize ==
    /\ \A i \in 1..NObs : Len(observations[i].rows) = pool_size
    /\ \A i \in 1..NAct : Len(actions[i].rows) = pool_size
    /\ Len(is_alive.rows) = pool_size
    /\ \A i \in 1..NMem : Len(preceding_agent_memories[i].rows) = pool_size

(* C8: sample(M, replace=False) on a pool of size N selects exactly
   min(M, N) indices, pairwise distinct, each in [0, N), and the returned
   batch holds exactly those pool rows. *)
C8_SampleWithoutReplacement ==
    (call.op = "sample" /\ ~call.replace)
    => LET s == call.selector
       IN  /\ Len(s) = Min(call.max_n_samples, pool_size)
           /\ \A j, k \in 1..Len(s) : j # k => s[j] # s[k]
           /\ InPool(s)
           /\ OnePoolSize => call.outcome = "ok"
           /\ call.outcome = "ok" => BatchHolds(call.batch, s)

C8_Witness ==
    /\ call.op = "sample"
    /\ ~call.replace
    /\ call.outcome = "ok"
    /\ pool_size = 3
    /\ call.max_n_samples = 2
    /\ call.batch.rewards.val.rows[1] # call.batch.rewards.val.rows[2]

(* C9: select(s) with every entry of s in [0, pool_size) returns a batch of
   len(s) rows whose row k is, in every stream, pool row s[k]; repeated
   indices repeat the row and the order of s is kept. *)
C9_SelectGathersRows ==
    (call.op = "select" /\ InPool(call.selector))
    => /\ OnePoolSize => call.outcome = "ok"
       /\ call.outcome = "ok" =>
             /\ BatchHolds(call.batch, call.selector)
             /\ Len(call.batch.rewards.val.rows) = Len(call.selector)

C9_Witness ==
    /\ call.op = "select"
    /\ call.outcome = "ok"
    /\ call.selector = <<1, 1, 0>>
    /\ call.batch.rewards.val.rows[1] = call.batch.rewards.val.rows[2]
    /\ call.batch.rewards.val.rows[2] # call.batch.rewards.val.rows[3]
    /\ call.batch.is_alive.val.rows[2] # call.batch.is_alive.val.rows[3]
    /\ call.batch.rewards.val.rows[3] = rewards.rows[1]

(* C10 as claimed, for a batch returned by select: read after any later
   load/append calls, the batch still yields the rows the pool held when
   select was called. *)
C10_BatchIsSnapshot ==
    (call.op = "read" /\ held.kind = "select")
    => (call.outcome = "ok" /\ call.batch = held.taken)

(* C10, amended: a kept batch is a view of the pool: every reading yields
   the rows the pool holds at the moment of the reading, at the selector's
   indices for select and at newly drawn indices for sample. *)
C10_BatchIsView ==
    (call.op = "read" /\ call.outcome = "ok")
    => /\ BatchHolds(call.batch, call.selector)
       /\ held.kind = "select" => call.selector = held.selector
       /\ held.kind = "sample" =>
             Len(call.selector) = NSamples(Pool, held.max_n_samples, held.replace)

C10_Witness ==
    /\ call.op = "read"
    /\ call.outcome = "ok"
    /\ held.kind = "select"
    /\ call.batch # held.taken
    /\ Len(call.batch.rewards.val.rows) = Len(held.taken.rewards.val.rows)

\* the ticks of time_i are ticks of every observation stream and the batch
\* is no longer than the pool
StepInRange(time_i) ==
    \A i \in 1..NObs :
        /\ Len(time_i) <= Len(observations[i].rows)
        /\ \A k \in 1..Len(time_i) : 0 <= time_i[k] /\ time_i[k] < observations[i].width

(* C11: the padded view of each observation stream of T ticks has T+1
   ticks, equal to the stream at every tick below T and 0 at tick T; so the
   action-result step at tick T-1 returns new state T and a zero
   observation for every channel without an index error, and at every tick
   below T-1 returns the stream's next tick. *)
C11_PaddedStep ==
    /\ \A i \in 1..NObs :
          LET o == observations[i]
              pd == PaddedObservations(Pool)[i]
          IN  /\ pd.width = o.width + 1
              /\ Len(pd.rows) = Len(o.rows)
              /\ \A r \in 1..Len(o.rows) :
                    /\ Len(pd.rows[r]) = o.width + 1
                    /\ \A t \in 1..o.width : pd.rows[r][t] = o.rows[r][t]
                    /\ pd.rows[r][o.width + 1] = 0
    /\ (call.op = "step" /\ StepInRange(call.time_i))
       => /\ call.outcome = "ok"
          /\ \A k \in 1..Len(call.time_i) :
                /\ call.new_state[k] = call.time_i[k] + 1
                /\ \A i \in 1..NObs :
                      call.new_observations[i][k] =
                          IF call.time_i[k] = observations[i].width - 1 THEN 0
                          ELSE observations[i].rows[k][call.time_i[k] + 2]

C11_Witness ==
    /\ call.op = "step"
    /\ call.outcome = "ok"
    /\ sequence_length = AltSeqLen
    /\ observations[1].width = AltSeqLen
    /\ call.time_i = <<AltSeqLen - 1>>
    /\ call.new_state = <<AltSeqLen>>
    /\ call.new_observations[1][1] = 0
    /\ observations[1].rows[1][AltSeqLen] # 0

(* C12: a select that runs while a load is running reads its batch either
   entirely from the pool as it was before the load or entirely from the
   pool as it is after it, never from a mix of the two. *)
C12_ReadsBeforeOrAfter ==
    (held.kind = "select" /\ call.op = "load" /\ call.outcome = "ok")
    => \E p \in {call.before, Pool} :
          LET r == select_session_batch(p, held.selector)
          IN  held.taken = r.batch /\ held.outcome = r.outcome

\* the call ended at a read of is_alive_tensor or preceding_memory_states,
\* the locals of the streams the call did not give (lines 261-265); the
\* UnboundLocalError of line 258 is raised before either is looked at and
\* names observation_tensor
RaisedOnMissingStream(c) ==
    /\ c.outcome = "UnboundLocalError"
    /\ ~CropEntered(Pool, c.args)
    /\ FinalCallUnbound(c.args)

(* C13: an append whose result exceeds max_pool_size and that omits the
   liveness or the preceding memories fails with the error of the missing
   stream, not with another error and not by succeeding, and leaves every
   stream as it was. *)
C13_MissingStreamRejected ==
    [][(/\ call'.op = "append"
        /\ ~AllSupplied(call'.args)
        /\ ArgsFit(call'.args)
        /\ Exceeds(call'.args))
       => (RaisedOnMissingStream(call') /\ UNCHANGED PoolVars)]_vars

\* the row counts of the streams
StreamLens ==
    {Len(observations[i].rows) : i \in 1..NObs}
    \cup {Len(actions[i].rows) : i \in 1..NAct}
    \cup {Len(preceding_agent_memories[i].rows) : i \in 1..NMem}
    \cup {Len(rewards.rows), Len(is_alive.rows)}

\* every entry of s is an index of advanced indexing into every stream
Indexes(s) == \A n \in StreamLens : \A k \in 1..Len(s) : -n <= s[k] /\ s[k] < n

(* C14 as claimed: a select call with an index outside [0, pool_size),
   negative ones included, fails with the index error instead of returning
   a batch, and leaves the pool unchanged. *)
C14_OutOfRangeRejected ==
    [][(call'.op = "select" /\ ~InPool(call'.selector))
       => (call'.outcome = "IndexError" /\ UNCHANGED PoolVars)]_vars

(* C14, amended: a select call fails with the index error exactly when an
   index lies outside [-n, n) for a stream of n rows, so whenever one lies
   outside [-pool_size, pool_size); an index i with -n <= i < 0 is accepted
   and selects row n + i. The pool is unchanged either way. *)
C14_BeyondEitherEndRejected ==
    [][call'.op = "select"
       => LET s == call'.selector
          IN  /\ UNCHANGED PoolVars
              /\ (\E k \in 1..Len(s) : s[k] < -pool_size \/ s[k] >= pool_size)
                    => call'.outcome = "IndexError"
              /\ call'.outcome = (IF Indexes(s) THEN "ok" ELSE "IndexError")
              /\ call'.outcome = "ok" => BatchHolds(call'.batch, s)]_vars

C14_Witness ==
    /\ call.op = "select"
    /\ call.outcome = "IndexError"
    /\ call.selector \in BelowSelectors
    /\ OnePoolSize
    /\ pool_size = MaxNew

(* C15: on a pool of N >= 1 rows, sample(M, replace=True) selects exactly M
   indices, each in [0, N), repeats allowed, also when M > N, and the batch
   has exactly M rows. *)
C15_SampleWithReplacement ==
    (call.op = "sample" /\ call.replace)
    => LET s == call.selector
       IN  /\ Len(s) = call.max_n_samples
           /\ InPool(s)
           /\ OnePoolSize => call.outcome = "ok"
           /\ call.outcome = "ok" =>
                 /\ BatchHolds(call.batch, s)
                 /\ Len(call.batch.rewards.val.rows) = call.max_n_samples
                 /\ \A i \in 1..NObs :
                       Len(call.batch.observations[i].rows) = call.max_n_samples

C15_Witness ==
    /\ call.op = "sample"
    /\ call.replace
    /\ call.outcome = "ok"
    /\ pool_size = 1
    /\ call.max_n_samples = MaxSamples
    /\ call.selector = [k \in 1..MaxSamples |-> 0]
    /\ Len(call.batch.rewards.val.rows) = MaxSamples

\* the shared variables an update set for the arguments a is to replace
UpdatedStreams(a) ==
    {<<"observations", i>> : i \in 1..NObs}
    \cup {<<"actions", i>> : i \in 1..NAct}
    \cup {<<"rewards", 0>>}
    \cup (IF a.alive.given THEN {<<"is_alive", 0>>} ELSE {})
    \cup (IF a.mem.given THEN {<<"preceding_agent_memories", i>> : i \in 1..NMem} ELSE {})

\* the array the call gives for a shared variable
Supplied(a, stream, ch) ==
    CASE stream = "observations" -> a.obs[ch]
      [] stream = "actions" -> a.act[ch]
      [] stream = "rewards" -> a.rew
      [] stream = "is_alive" -> a.alive.val
      [] stream = "preceding_agent_memories" -> a.mem.val[ch]

(* C16: building an update set changes no stream of the pool, whether it
   succeeds or fails; on success the mapping has exactly one entry per
   observation channel, per action channel and for the rewards, and one for
   the liveness and for each memory channel only when they were supplied,
   each keyed by the stream it would replace and valued with the supplied
   array (in the stream's dtype when the cast is asked for). *)
C16_UpdateSetIsPure ==
    [][call'.op = "updates"
       => LET a == call'.args
              u == call'.updates
          IN  /\ UNCHANGED PoolVars
              /\ call'.outcome = (IF CountsMatch(a) THEN "ok" ELSE "AssertionError")
              /\ call'.outcome = "ok" =>
                    /\ {<<u[k].stream, u[k].ch>> : k \in 1..Len(u)} = UpdatedStreams(a)
                    /\ Len(u) = Cardinality(UpdatedStreams(a))
                    /\ \A k \in 1..Len(u) :
                          u[k].val =
                              IF call'.cast_dtypes
                              THEN AsType(Supplied(a, u[k].stream, u[k].ch),
                                          DTypeOf(u[k].stream))
                              ELSE Supplied(a, u[k].stream, u[k].ch)]_vars

C16_Witness ==
    /\ call.op = "updates"
    /\ call.outcome = "ok"
    /\ ~call.args.alive.given
    /\ call.args.mem.given
    /\ Len(call.updates) = NObs + NAct + 1 + NMem
    /\ call.updates[NObs + NAct + 1].val = call.args.rew
    /\ rewards # call.args.rew
    /\ rewards # Full(InitPoolSize, InitSeqLen, FlatNdim, 0)

(* C17: the action-result step returns the new state t+1 and, for every
   observation channel, the padded observation at tick t+1; both are the
   same whatever the action argument is, and the step changes no stream. *)
C17_StepIgnoresAction ==
    [][call'.op = "step"
       => LET t == call'.time_i
          IN  /\ UNCHANGED PoolVars
              /\ \A acts \in ActionValues :
                    LET r == get_action_results(Pool, t, acts)
                    IN  /\ r.outcome = call'.outcome
                        /\ r.new_state = call'.new_state
                        /\ r.new_observations = call'.new_observations
              /\ call'.new_state = [k \in 1..Len(t) |-> t[k] + 1]
              /\ call'.outcome = "ok" =>
                    \A i \in 1..NObs : \A k \in 1..Len(t) :
                        call'.new_observations[i][k] =
                            PaddedObservations(Pool)[i].rows[k][t[k] + 2]]_vars

C17_Witness ==
    /\ call.op = "step"
    /\ call.acts = MaxAction
    /\ call.outcome = "ok"
    /\ call.time_i = <<0>>
    /\ call.new_state = <<1>>
    /\ call.new_observations[1][1] = observations[1].rows[1][2]
    /\ call.new_observations[1][1] # 0

(* C18: an append that omits the liveness and/or the preceding memories and
   gives no max_pool_size completes without error: observations, actions
   and rewards grow by the new rows and each omitted stream is left as it
   was. *)
C18_OmittedAppendCompletes ==
    [][(/\ call'.op = "append"
        /\ ~AllSupplied(call'.args)
        /\ ArgsFit(call'.args)
        /\ call'.args.K = NoCrop)
       => LET a == call'.args
          IN  /\ call'.outcome = "ok"
              /\ \A i \in 1..NObs :
                    observations'[i].rows = Joined(observations[i], a.obs[i], "floatX")
              /\ \A i \in 1..NAct :
                    actions'[i].rows = Joined(actions[i], a.act[i], "int32")
              /\ rewards'.rows = Joined(rewards, a.rew, "floatX")
              /\ ~a.alive.given => is_alive' = is_alive
              /\ ~a.mem.given => preceding_agent_memories' = preceding_agent_memories]_vars

(* C19: pool_size and sequence_length are not fixed at construction: in
   every reachable state they are the first and the second extent of the
   reward stream as it is now, so a sample or a select made after a load or
   an append that changed the number of rows draws from, and is bounded by,
   the new number of rows. *)
C19_SizesFollowRewards ==
    /\ pool_size = Len(rewards.rows)
    /\ sequence_length = rewards.width
    /\ call.op = "sample" =>
          /\ \A k \in 1..Len(call.selector) :
                0 <= call.selector[k] /\ call.selector[k] < Len(rewards.rows)
          /\ ~call.replace =>
                Len(call.selector) = Min(call.max_n_samples, Len(rewards.rows))
    /\ (call.op = "select" /\ call.outcome = "ok") =>
          \A k \in 1..Len(call.selector) :
              -Len(rewards.rows) <= call.selector[k] /\ call.selector[k] < Len(rewards.rows)

C19_Witness ==
    /\ call.op = "sample"
    /\ ~call.replace
    /\ call.outcome = "ok"
    /\ Len(rewards.rows) = 1
    /\ rewards.width = AltSeqLen
    /\ call.max_n_samples = MaxSamples
    /\ call.selector = <<0>>
    /\ call.batch.rewards.val.rows = rewards.rows

====
